---- MODULE Spec2Model ----
(***************************************************************************)
(* The zookeeper registry Watcher of database/registry/zookeeper/watch.go: *)
(* the goroutines it starts (watchService, one watchDir per path, one      *)
(* watchServiceNode per reported instance), its facade (Notify, Valid,     *)
(* Close, IsClosed) and the coordination service it talks to.              *)
(*                                                                         *)
(* A path is a sequence of names: <<>> is the root, <<s>> a service path,  *)
(* <<s, i>> an instance node.  Every goroutine step between two accesses   *)
(* of shared state (a channel, the mutex, the wait group, a call of the    *)
(* coordination client) is one action.                                     *)
(*                                                                         *)
(* The HashMap of sync/hash_map.go is modelled next to it: its shards, its *)
(* size counter and the calls that write them.                             *)
(***************************************************************************)
EXTENDS Integers, Sequences, FiniteSets, TLC

\* ---------------------------------------------------------------- bounds
\* The environment's steps that are counted: a namespace change (create, delete,
\* set data), a session loss, an expiry of watchDir's backoff timer.
\* how many of them happen under SpecWatch
MaxEnvSteps == 2
\* how many of them happen under SpecDeep
MaxDeepSteps == 3
\* how many of them happen under Spec
MaxStopSteps == 2
\* how many of them happen under SpecValid and SpecClose
MaxValidSteps == 1
\* goroutines calling Close under SpecClose
NumClosers == 2
\* calls made on the HashMap under SpecMap and SpecMapRace
MaxMapOps == 3
\* goroutines calling Remove and Pop under SpecMapRace
NumPoppers == 2

\* ------------------------------------------------------ program constants
MAX_TIMES == 15
Wactch_Event_Channel_Size == 32
ZKCLIENT_EVENT_CHANNEL_SIZE == 4
SHARD_COUNT == 32

\* ------------------------------------------------------------- namespace
ServiceNames == {"svcA", "svcX"}
InstNames == {"inst1", "instX"}

Root == <<>>
SvcPaths == {<<s>> : s \in ServiceNames}
InstPaths == {<<"svcA", i>> : i \in InstNames}
DirPaths == {Root} \cup SvcPaths
NodePaths == SvcPaths \cup InstPaths
AllPaths == {Root} \cup NodePaths

\* the namespaces the Watcher may be started against
InitNamespaces ==
    { {Root},
      {Root, <<"svcA">>},
      {Root, <<"svcA">>, <<"svcA", "inst1">>} }

Join(p, n) == Append(p, n)
Parent(p) == SubSeq(p, 1, Len(p) - 1)
Min(a, b) == IF a < b THEN a ELSE b

ChildEventTypes == {"EventNodeChildrenChanged", "EventNodeDeleted", "EventNotWatching"}
NodeEventTypes ==
    {"EventNodeDataChanged", "EventNodeCreated", "EventNodeDeleted", "EventNotWatching"}
\* where a watchServiceNode goroutine is
NodePhases == {"spawned", "call", "armed", "sendDel"} \cup NodeEventTypes

VARIABLES
    nodes,        \* the paths that exist in the coordination service
    zkState,      \* the session state of the coordination client
    regDone,      \* the registry's done channel is closed
    envLeft,      \* counted steps the environment may still take
    changed,      \* the namespace changed since the Watcher was made
    nDisc,        \* session losses so far
    delCnt,       \* per node: how often it was deleted
    done,         \* Watcher.done is closed
    panicked,     \* a goroutine panicked (close of a closed channel)
    pathSet,      \* Watcher.pathSet
    wg,           \* the counter of Watcher.wg
    events,       \* Watcher.events, the buffered relay
    wsPc,         \* the watchService goroutine
    dirSpawned,   \* per path: watchDir goroutines started, not yet at the pathSet check
    dirReturned,  \* per path: watchDir calls that returned at the pathSet check
    loopsEntered, \* per path: watchDir calls that got past the pathSet check
    dpc,          \* per path: where the watchDir loop is
    failTimes,    \* per path: watchDir's failTimes
    children,     \* per path: watchDir's children
    childW,       \* per path: the one-shot children watch of watchDir
    evReg,        \* per path: watchDir's event channel is registered with the registry
    evCh,         \* per path: signals buffered in watchDir's event channel
    nodeW,        \* per node: the watchServiceNode goroutines by phase
    addedCnt,     \* per node: Added events Notify returned
    removedCnt,   \* per node: Removed events Notify returned
    dataAfterStop,\* a Notify called with done closed returned a data event
    closePc,      \* per closer: where its Close call is
    closeReturned,\* some Close call has returned
    putAfterClose,\* an event was put on the relay after a Close call returned
    validPc,      \* the Valid caller
    validRes,     \* what the last Valid call returned
    validLate,    \* the last Valid call began with done closed
    shard,        \* HashMap.shard: per shard index the sync.Map, key -> value
    size,         \* HashMap.size
    hmPc,         \* per caller: where its Remove or Pop call is
    hmLeft,       \* calls that may still be made on the HashMap
    popTrue,      \* per key: Pop calls that returned exists = true
    storeCnt      \* per key: values stored under the key so far

envVars == <<nodes, zkState, regDone, envLeft, changed, nDisc, delCnt>>
dirVars == <<dirSpawned, dirReturned, loopsEntered, dpc, failTimes, children, childW, evReg, evCh>>
facadeVars == <<addedCnt, removedCnt, dataAfterStop, closePc, closeReturned, validPc, validRes, validLate>>
watcherVars == <<envVars, done, panicked, pathSet, wg, events, wsPc, dirVars, nodeW,
                 facadeVars, putAfterClose>>
hmVars == <<shard, size, hmPc, hmLeft, popTrue, storeCnt>>
vars == <<watcherVars, hmVars>>

\* ------------------------------------------------- coordination client
Children(p) == {n \in ServiceNames \cup InstNames : Join(p, n) \in nodes}
ZkOk == zkState = "StateHasSession"
GetChildrenOk(p) == ZkOk /\ p \in nodes
GetOk(p) == ZkOk /\ p \in nodes
ExistWOk(p) == ZkOk

\* ------------------------------------------------- record collaborator
\* ServiceAttr.UnmarshalPath and Filter on a service path name
PathFilter(n) == n = "svcA"
\* DecodeService on the data of a node
DecodeOk(p) == Len(p) = 2
\* Filter on the decoded record
RecordFilter(p) == p[Len(p)] = "inst1"

\* ---------------------------------------------------------------- helpers
contains(s, e) == \E k \in 1..Len(s) : s[k] = e

EvAdd(p) == [kind |-> "ServiceURLAdd", node |-> p, err |-> "nil"]
EvDel(p) == [kind |-> "ServiceURLDel", node |-> p, err |-> "nil"]

\* the sequences that list the set S once each
RECURSIVE Orders(_)
Orders(S) ==
    IF S = {} THEN {<<>>}
    ELSE UNION { {<<x>> \o t : t \in Orders(S \ {x})} : x \in S }

Running(p) == dpc[p] \in {"entered", "call", "wait", "backoff"}
NodeRunning(n) == \E ph \in NodePhases \ {"spawned", "sendDel"} : nodeW[n][ph] > 0

\* a goroutine runs only while the process has not panicked
Alive == ~panicked

\* hash_map.go: the keys, the values and the hash function of the callers
Keys == {"k1", "k2"}
Values == {"v1", "v2"}
Absent == "absent"
Hash(key) == IF key = "k1" THEN 1 ELSE 33
\* lines 27-38: NewHashMap, called with a shard number below SHARD_COUNT
shardNum == SHARD_COUNT
ShardIds == 0..(shardNum - 1)
IdleCall == [op |-> "idle", key |-> Absent, v |-> Absent, at |-> "idle"]

\* lines 27-38: NewHashMap; ops calls will be made on the map
NewHashMap(ops) ==
    /\ shard = [i \in ShardIds |-> [k \in Keys |-> Absent]]
    /\ size = 0
    /\ hmPc = [t \in 1..NumPoppers |-> IdleCall]
    /\ hmLeft = ops
    /\ popTrue = [k \in Keys |-> 0]
    /\ storeCnt = [k \in Keys |-> 0]

\* lines 64-71: NewWatcher
InitWatcher(budget) ==
    /\ envLeft = budget
    /\ nodes \in InitNamespaces
    /\ zkState = "StateHasSession"
    /\ regDone = FALSE
    /\ changed = FALSE
    /\ nDisc = 0
    /\ delCnt = [n \in NodePaths |-> 0]
    /\ done = FALSE
    /\ panicked = FALSE
    /\ pathSet = <<>>
    /\ wg = 0
    /\ events = <<>>
    /\ wsPc = "start"
    /\ dirSpawned = [p \in DirPaths |-> 0]
    /\ dirReturned = [p \in DirPaths |-> FALSE]
    /\ loopsEntered = [p \in DirPaths |-> 0]
    /\ dpc = [p \in DirPaths |-> "none"]
    /\ failTimes = [p \in DirPaths |-> 0]
    /\ children = [p \in DirPaths |-> {}]
    /\ childW = [p \in DirPaths |-> "none"]
    /\ evReg = [p \in DirPaths |-> FALSE]
    /\ evCh = [p \in DirPaths |-> 0]
    /\ nodeW = [n \in NodePaths |-> [ph \in NodePhases |-> 0]]
    /\ addedCnt = [n \in NodePaths |-> 0]
    /\ removedCnt = [n \in NodePaths |-> 0]
    /\ dataAfterStop = FALSE
    /\ closePc = [c \in 1..NumClosers |-> "idle"]
    /\ closeReturned = FALSE
    /\ putAfterClose = FALSE
    /\ validPc = "idle"
    /\ validRes = "none"
    /\ validLate = FALSE

\* a Watcher, next to a HashMap on which no call is made
InitWith(budget) == InitWatcher(budget) /\ NewHashMap(0)

\* ------------------------------------------------------------ environment
\* every armed one-shot watch of the paths in W fires with event type t
FireChild(cw, W, t) ==
    [p \in DirPaths |-> IF p \in W /\ cw[p] = "armed" THEN t ELSE cw[p]]
FireNode(nw, W, t) ==
    [n \in NodePaths |->
        IF n \in W /\ nw[n]["armed"] > 0
        THEN [nw[n] EXCEPT !["armed"] = 0, ![t] = @ + nw[n]["armed"]]
        ELSE nw[n]]

\* a node is created under an existing parent
Create(p) ==
    /\ envLeft > 0
    /\ p \notin nodes
    /\ p = Root \/ Parent(p) \in nodes
    /\ nodes' = nodes \cup {p}
    /\ envLeft' = envLeft - 1
    /\ changed' = TRUE
    /\ childW' = FireChild(childW, {Parent(p)} \ {p}, "EventNodeChildrenChanged")
    /\ nodeW' = FireNode(nodeW, {p}, "EventNodeCreated")
    /\ UNCHANGED <<zkState, regDone, nDisc, delCnt, done, panicked, pathSet, wg,
                   events, wsPc, dirSpawned, dirReturned, loopsEntered, dpc, failTimes,
                   children, evReg, evCh, facadeVars, putAfterClose>>
    /\ UNCHANGED hmVars

\* a node without children is deleted
Delete(p) ==
    /\ envLeft > 0
    /\ p \in nodes /\ p # Root
    /\ Children(p) = {}
    /\ nodes' = nodes \ {p}
    /\ envLeft' = envLeft - 1
    /\ changed' = TRUE
    /\ delCnt' = [delCnt EXCEPT ![p] = @ + 1]
    /\ childW' = FireChild(FireChild(childW, {Parent(p)}, "EventNodeChildrenChanged"),
                           {p}, "EventNodeDeleted")
    /\ nodeW' = FireNode(nodeW, {p}, "EventNodeDeleted")
    /\ UNCHANGED <<zkState, regDone, nDisc, done, panicked, pathSet, wg,
                   events, wsPc, dirSpawned, dirReturned, loopsEntered, dpc, failTimes,
                   children, evReg, evCh, facadeVars, putAfterClose>>
    /\ UNCHANGED hmVars

\* the record of an instance node is rewritten
SetData(p) ==
    /\ envLeft > 0
    /\ p \in nodes \cap InstPaths
    /\ envLeft' = envLeft - 1
    /\ changed' = TRUE
    /\ nodeW' = FireNode(nodeW, {p}, "EventNodeDataChanged")
    /\ UNCHANGED <<nodes, zkState, regDone, nDisc, delCnt, done, panicked, pathSet,
                   wg, events, wsPc, dirVars, facadeVars, putAfterClose>>
    /\ UNCHANGED hmVars

\* the connection to the coordination service is lost
Disconnect ==
    /\ envLeft > 0
    /\ envLeft' = envLeft - 1
    /\ zkState # "StateDisconnected"
    /\ zkState' = "StateDisconnected"
    /\ nDisc' = nDisc + 1
    /\ UNCHANGED <<nodes, regDone, changed, delCnt, done, panicked, pathSet, wg,
                   events, wsPc, dirVars, nodeW, facadeVars, putAfterClose>>
    /\ UNCHANGED hmVars

\* the session expires while disconnected: every watch is invalidated
SessionExpire ==
    /\ zkState = "StateDisconnected"
    /\ \/ \E p \in DirPaths : childW[p] = "armed"
       \/ \E n \in NodePaths : nodeW[n]["armed"] > 0
    /\ childW' = FireChild(childW, DirPaths, "EventNotWatching")
    /\ nodeW' = FireNode(nodeW, NodePaths, "EventNotWatching")
    /\ UNCHANGED <<envVars, done, panicked, pathSet, wg, events, wsPc, dirSpawned,
                   dirReturned, loopsEntered, dpc, failTimes, children, evReg, evCh,
                   facadeVars, putAfterClose>>
    /\ UNCHANGED hmVars

\* the client reaches a server again
Reconnect ==
    /\ zkState = "StateDisconnected"
    /\ zkState' = "StateConnected"
    /\ UNCHANGED <<nodes, regDone, envLeft, changed, nDisc, delCnt, done, panicked,
                   pathSet, wg, events, wsPc, dirVars, nodeW, facadeVars, putAfterClose>>
    /\ UNCHANGED hmVars

\* the session is established; the registry signals every registered event channel
SessionEstablished ==
    /\ zkState = "StateConnected"
    /\ zkState' = "StateHasSession"
    /\ evCh' = [p \in DirPaths |->
                  IF evReg[p] THEN Min(evCh[p] + 1, ZKCLIENT_EVENT_CHANNEL_SIZE) ELSE evCh[p]]
    /\ UNCHANGED <<nodes, regDone, envLeft, changed, nDisc, delCnt, done, panicked,
                   pathSet, wg, events, wsPc, dirSpawned, dirReturned, loopsEntered, dpc,
                   failTimes, children, childW, evReg, nodeW, facadeVars, putAfterClose>>
    /\ UNCHANGED hmVars

\* the registry is closed
RegistryClose ==
    /\ ~regDone
    /\ regDone' = TRUE
    /\ UNCHANGED <<nodes, zkState, envLeft, changed, nDisc, delCnt, done, panicked,
                   pathSet, wg, events, wsPc, dirVars, nodeW, facadeVars, putAfterClose>>
    /\ UNCHANGED hmVars

\* ------------------------------------------------------------ the relay
\* the events evs are sent on Watcher.events
Put(evs) ==
    /\ Len(events) + Len(evs) <= Wactch_Event_Channel_Size
    /\ events' = events \o evs
    /\ putAfterClose' = (putAfterClose \/ (closeReturned /\ evs # <<>>))

\* --------------------------------------------------------- the handlers
\* handleZkPathEvent: one watchDir goroutine per new child that passes the filter
handleZkPathEvent(zkRoot, kids) ==
    LET newChildren == IF GetChildrenOk(zkRoot) THEN Children(zkRoot) ELSE {}
        watch == {Join(zkRoot, n) : n \in {m \in newChildren \ kids : PathFilter(m)}}
    IN  dirSpawned' = [p \in DirPaths |-> dirSpawned[p] + (IF p \in watch THEN 1 ELSE 0)]

\* a variant of Reported: a node that still has a node watch is not reported again
ReportedUnwatched(zkPath, kids) ==
    LET newChildren == IF GetChildrenOk(zkPath) THEN Children(zkPath) ELSE {}
    IN  {q \in {Join(zkPath, n) : n \in newChildren \ kids} :
            /\ GetOk(q) /\ DecodeOk(q) /\ RecordFilter(q)
            /\ \A ph \in NodePhases : nodeW[q][ph] = 0}

\* the nodes handleZkNodeEvent reports: new children it can read, decode and that
\* pass the filter
Reported(zkPath, kids) ==
    LET newChildren == IF GetChildrenOk(zkPath) THEN Children(zkPath) ELSE {}
    IN  {q \in {Join(zkPath, n) : n \in newChildren \ kids} :
            GetOk(q) /\ DecodeOk(q) /\ RecordFilter(q)}

\* a variant of NodeWatched: the node watch is started before the record is checked
NodeWatchedUnchecked(zkPath, kids) ==
    LET newChildren == IF GetChildrenOk(zkPath) THEN Children(zkPath) ELSE {}
    IN  {Join(zkPath, n) : n \in newChildren \ kids}

\* the nodes handleZkNodeEvent starts a watchServiceNode goroutine for
NodeWatched(zkPath, kids) == Reported(zkPath, kids)

\* handleZkNodeEvent: an Added event, then a node watch, per reported node
handleZkNodeEvent(zkPath, kids) ==
    \E ord \in Orders(Reported(zkPath, kids)) :
        /\ Put([k \in 1..Len(ord) |-> EvAdd(ord[k])])
        /\ nodeW' = [n \in NodePaths |->
                        IF n \in NodeWatched(zkPath, kids)
                        THEN [nodeW[n] EXCEPT !["spawned"] = @ + 1]
                        ELSE nodeW[n]]

\* ------------------------------------------------------------ watchService
\* a variant of watchService: the send of line 346, which the code has as a comment,
\* is made when GetChildren fails
watchServiceSendsError ==
    /\ Alive
    /\ wsPc = "start"
    /\ wsPc' = "done"
    /\ nodes' = IF ZkOk /\ Root \in nodes /\ Children(Root) = {} THEN nodes \ {Root} ELSE nodes
    /\ LET ok == GetChildrenOk(Root) /\ Root \in nodes'
           kids == IF ok THEN Children(Root) ELSE {}
       IN  /\ dirSpawned' = [p \in DirPaths |->
                   dirSpawned[p] +
                   (IF p = Root \/ (p[1] \in kids /\ PathFilter(p[1])) THEN 1 ELSE 0)]
           /\ Put(IF ok THEN <<>> ELSE <<[kind |-> "nil", node |-> Root, err |-> "error"]>>)
    /\ UNCHANGED <<zkState, regDone, envLeft, changed, nDisc, delCnt, done, panicked,
                   pathSet, wg, dirReturned, loopsEntered, dpc, failTimes, children,
                   childW, evReg, evCh, nodeW, facadeVars>>
    /\ UNCHANGED hmVars

\* lines 324-376: watchService
watchService ==
    /\ Alive
    /\ wsPc = "start"
    /\ wsPc' = "done"
    \* DeleteZkPath(root): deletes the root when it has no children
    /\ nodes' = IF ZkOk /\ Root \in nodes /\ Children(Root) = {} THEN nodes \ {Root} ELSE nodes
    /\ LET kids == IF GetChildrenOk(Root) /\ Root \in nodes' THEN Children(Root) ELSE {}
       IN  dirSpawned' = [p \in DirPaths |->
               dirSpawned[p] +
               (IF p = Root \/ (p[1] \in kids /\ PathFilter(p[1])) THEN 1 ELSE 0)]
    /\ UNCHANGED <<zkState, regDone, envLeft, changed, nDisc, delCnt, done, panicked,
                   pathSet, wg, events, dirReturned, loopsEntered, dpc, failTimes, children,
                   childW, evReg, evCh, nodeW, facadeVars, putAfterClose>>
    /\ UNCHANGED hmVars

\* ---------------------------------------------------------------- watchDir
\* a variant of Watched: only the path registered last is compared
WatchedLast(zkPath) == pathSet # <<>> /\ pathSet[Len(pathSet)] = zkPath

\* the flag of lines 233-238: the path is already in pathSet
Watched(zkPath) == contains(pathSet, zkPath)

\* lines 233-242: check and register under the lock; return when already watched
watchDirCheck(p) ==
    /\ Alive
    /\ dirSpawned[p] > 0
    /\ dirSpawned' = [dirSpawned EXCEPT ![p] = @ - 1]
    /\ IF Watched(p)
       THEN /\ dirReturned' = [dirReturned EXCEPT ![p] = TRUE]
            /\ UNCHANGED <<pathSet, loopsEntered, dpc, childW, evReg, evCh>>
       ELSE /\ pathSet' = Append(pathSet, p)
            /\ loopsEntered' = [loopsEntered EXCEPT ![p] = @ + 1]
            /\ dpc' = [dpc EXCEPT ![p] = "entered"]
            /\ childW' = [childW EXCEPT ![p] = "none"]
            /\ evReg' = [evReg EXCEPT ![p] = FALSE]
            /\ evCh' = [evCh EXCEPT ![p] = 0]
            /\ UNCHANGED dirReturned
    /\ UNCHANGED <<envVars, done, panicked, wg, events, wsPc, failTimes, children, nodeW,
                   facadeVars, putAfterClose>>
    /\ UNCHANGED hmVars

\* lines 244-254: make the event channel, wg.Add(1), failTimes = 1
watchDirAdd(p) ==
    /\ Alive
    /\ dpc[p] = "entered"
    /\ wg' = wg + 1
    /\ failTimes' = [failTimes EXCEPT ![p] = 1]
    /\ children' = [children EXCEPT ![p] = {}]
    /\ dpc' = [dpc EXCEPT ![p] = "call"]
    /\ UNCHANGED <<envVars, done, panicked, pathSet, events, wsPc, dirSpawned, dirReturned,
                   loopsEntered, childW, evReg, evCh, nodeW, facadeVars, putAfterClose>>
    /\ UNCHANGED hmVars

\* lines 257-275: GetChildrenW; on an error count it, drain the event channel and
\* register it with the registry
watchDirGetChildrenW(p) ==
    /\ Alive
    /\ dpc[p] = "call"
    /\ IF GetChildrenOk(p)
       THEN /\ children' = [children EXCEPT ![p] = Children(p)]
            /\ childW' = [childW EXCEPT ![p] = "armed"]
            /\ dpc' = [dpc EXCEPT ![p] = "wait"]
            /\ UNCHANGED <<failTimes, evReg, evCh>>
       ELSE /\ failTimes' = [failTimes EXCEPT ![p] = Min(@ + 1, MAX_TIMES)]
            /\ evCh' = [evCh EXCEPT ![p] = 0]
            /\ evReg' = [evReg EXCEPT ![p] = TRUE]
            /\ children' = [children EXCEPT ![p] = {}]
            /\ childW' = [childW EXCEPT ![p] = "none"]
            /\ dpc' = [dpc EXCEPT ![p] = "backoff"]
    /\ UNCHANGED <<envVars, done, panicked, pathSet, wg, events, wsPc, dirSpawned,
                   dirReturned, loopsEntered, nodeW, facadeVars, putAfterClose>>
    /\ UNCHANGED hmVars

\* lines 278-280: the backoff timer expires
watchDirTimeout(p) ==
    /\ Alive
    /\ dpc[p] = "backoff"
    /\ envLeft > 0
    /\ envLeft' = envLeft - 1
    /\ evReg' = [evReg EXCEPT ![p] = FALSE]
    /\ dpc' = [dpc EXCEPT ![p] = "call"]
    /\ UNCHANGED <<nodes, zkState, regDone, changed, nDisc, delCnt, done, panicked, pathSet,
                   wg, events, wsPc, dirSpawned, dirReturned, loopsEntered, failTimes,
                   children, childW, evCh, nodeW, facadeVars, putAfterClose>>
    /\ UNCHANGED hmVars

\* lines 281-285 and the deferred wg.Done: the stop signal ends the backoff wait
watchDirBackoffDone(p) ==
    /\ Alive
    /\ dpc[p] = "backoff"
    /\ done
    /\ evReg' = [evReg EXCEPT ![p] = FALSE]
    /\ wg' = wg - 1
    /\ dpc' = [dpc EXCEPT ![p] = "exit"]
    /\ UNCHANGED <<envVars, done, panicked, pathSet, events, wsPc, dirSpawned, dirReturned,
                   loopsEntered, failTimes, children, childW, evCh, nodeW, facadeVars,
                   putAfterClose>>
    /\ UNCHANGED hmVars

\* lines 286-290: the registry's signal ends the backoff wait
watchDirBackoffEvent(p) ==
    /\ Alive
    /\ dpc[p] = "backoff"
    /\ evCh[p] > 0
    /\ evCh' = [evCh EXCEPT ![p] = @ - 1]
    /\ evReg' = [evReg EXCEPT ![p] = FALSE]
    /\ handleZkNodeEvent(p, {})
    /\ dpc' = [dpc EXCEPT ![p] = "call"]
    /\ UNCHANGED <<envVars, done, panicked, pathSet, wg, wsPc, dirSpawned, dirReturned,
                   loopsEntered, failTimes, children, childW, facadeVars>>
    /\ UNCHANGED hmVars

\* the children the notification is diffed against (lines 306-309)
KnownChildren(p) == IF failTimes[p] = 0 THEN {} ELSE children[p]

\* lines 295-313: the children watch fired (children is not read again before the
\* next GetChildrenW assigns it, and is left empty)
watchDirChildEvent(p) ==
    /\ Alive
    /\ dpc[p] = "wait"
    /\ childW[p] \in ChildEventTypes
    /\ childW' = [childW EXCEPT ![p] = "none"]
    /\ dpc' = [dpc EXCEPT ![p] = "call"]
    /\ IF childW[p] # "EventNodeChildrenChanged"
       THEN /\ children' = [children EXCEPT ![p] = {}]
            /\ UNCHANGED <<dirSpawned, failTimes, events, nodeW, putAfterClose>>
       ELSE IF p = Root
       THEN /\ handleZkPathEvent(p, children[p])
            /\ children' = [children EXCEPT ![p] = {}]
            /\ UNCHANGED <<failTimes, events, nodeW, putAfterClose>>
       ELSE /\ children' = [children EXCEPT ![p] = {}]
            /\ failTimes' = [failTimes EXCEPT ![p] = 0]
            /\ handleZkNodeEvent(p, KnownChildren(p))
            /\ UNCHANGED dirSpawned
    /\ UNCHANGED <<envVars, done, panicked, pathSet, wg, wsPc, dirReturned, loopsEntered,
                   evReg, evCh, facadeVars>>
    /\ UNCHANGED hmVars

\* lines 314-318 and the deferred wg.Done: the registry's done channel ends the wait
watchDirRegDone(p) ==
    /\ Alive
    /\ dpc[p] = "wait"
    /\ regDone
    /\ wg' = wg - 1
    /\ childW' = [childW EXCEPT ![p] = "none"]
    /\ dpc' = [dpc EXCEPT ![p] = "exit"]
    /\ UNCHANGED <<envVars, done, panicked, pathSet, events, wsPc, dirSpawned, dirReturned,
                   loopsEntered, failTimes, children, evReg, evCh, nodeW, facadeVars,
                   putAfterClose>>
    /\ UNCHANGED hmVars

\* ------------------------------------------------------- watchServiceNode
MoveNode(n, from, to) ==
    nodeW' = [nodeW EXCEPT ![n] = [@ EXCEPT ![from] = @ - 1, ![to] = @ + 1]]
DropNode(n, from) ==
    nodeW' = [nodeW EXCEPT ![n] = [@ EXCEPT ![from] = @ - 1]]

\* lines 78-79: wg.Add(1)
nodeAdd(n) ==
    /\ Alive
    /\ nodeW[n]["spawned"] > 0
    /\ MoveNode(n, "spawned", "call")
    /\ wg' = wg + 1
    /\ UNCHANGED <<envVars, done, panicked, pathSet, events, wsPc, dirVars, facadeVars,
                   putAfterClose>>
    /\ UNCHANGED hmVars

\* lines 83-87: ExistW; an error returns false
nodeExistW(n) ==
    /\ Alive
    /\ nodeW[n]["call"] > 0
    /\ IF ExistWOk(n)
       THEN MoveNode(n, "call", "armed") /\ UNCHANGED wg
       ELSE DropNode(n, "call") /\ wg' = wg - 1
    /\ UNCHANGED <<envVars, done, panicked, pathSet, events, wsPc, dirVars, facadeVars,
                   putAfterClose>>
    /\ UNCHANGED hmVars

\* a variant of OnNodeEvent: an invalidated watch is taken for a deletion
OnNodeEventLost(t) ==
    IF t \in {"EventNodeDeleted", "EventNotWatching"} THEN "deleted" ELSE "rearm"

\* what watchServiceNode does on an event of type t: "rearm" or "deleted"
OnNodeEvent(t) == IF t = "EventNodeDeleted" THEN "deleted" ELSE "rearm"

\* lines 90-104: the exists watch fired
nodeEvent(n, t) ==
    /\ Alive
    /\ nodeW[n][t] > 0
    /\ IF OnNodeEvent(t) = "deleted"
       THEN MoveNode(n, t, "sendDel") /\ wg' = wg - 1
       ELSE MoveNode(n, t, "call") /\ UNCHANGED wg
    /\ UNCHANGED <<envVars, done, panicked, pathSet, events, wsPc, dirVars, facadeVars,
                   putAfterClose>>
    /\ UNCHANGED hmVars

\* lines 105-107: the stop signal ends the wait
nodeDone(n, ph) ==
    /\ Alive
    /\ done
    /\ nodeW[n][ph] > 0
    /\ DropNode(n, ph)
    /\ wg' = wg - 1
    /\ UNCHANGED <<envVars, done, panicked, pathSet, events, wsPc, dirVars, facadeVars,
                   putAfterClose>>
    /\ UNCHANGED hmVars

\* lines 211-214: watchServiceNode returned true, the Removed event is sent
nodeSendDel(n) ==
    /\ Alive
    /\ nodeW[n]["sendDel"] > 0
    /\ DropNode(n, "sendDel")
    /\ Put(<<EvDel(n)>>)
    /\ UNCHANGED <<envVars, done, panicked, pathSet, wg, wsPc, dirVars, facadeVars>>
    /\ UNCHANGED hmVars

\* ------------------------------------------------------------------ facade
\* a variant of IsClosed: the registry's done channel is read
IsClosedRegistry == regDone

\* lines 416-424: IsClosed
IsClosed == done

\* what the select of Notify may take: the stop case, the head of the relay
NotifyChoices ==
    (IF done THEN {"stopped"} ELSE {}) \cup (IF events # <<>> THEN {"event"} ELSE {})

\* lines 378-386: Notify
Notify ==
    /\ Alive
    /\ \E c \in NotifyChoices :
        IF c = "event"
        THEN /\ events' = Tail(events)
             /\ addedCnt' = [addedCnt EXCEPT ![Head(events).node] =
                               @ + (IF Head(events).kind = "ServiceURLAdd" THEN 1 ELSE 0)]
             /\ removedCnt' = [removedCnt EXCEPT ![Head(events).node] =
                               @ + (IF Head(events).kind = "ServiceURLDel" THEN 1 ELSE 0)]
             /\ dataAfterStop' = (dataAfterStop \/ done)
        ELSE /\ dataAfterStop' = dataAfterStop
             /\ UNCHANGED <<events, addedCnt, removedCnt>>
    /\ UNCHANGED <<envVars, done, panicked, pathSet, wg, wsPc, dirVars, nodeW, closePc,
                   closeReturned, validPc, validRes, validLate, putAfterClose>>
    /\ UNCHANGED hmVars

\* line 408: Close reads IsClosed
CloseCheck(c) ==
    /\ Alive
    /\ closePc[c] \in {"idle", "returned"}
    /\ closePc' = [closePc EXCEPT ![c] = IF IsClosed THEN "wait" ELSE "closing"]
    /\ UNCHANGED <<envVars, done, panicked, pathSet, wg, events, wsPc, dirVars, nodeW,
                   addedCnt, removedCnt, dataAfterStop, closeReturned, validPc, validRes,
                   validLate, putAfterClose>>
    /\ UNCHANGED hmVars

\* line 409: close(w.done); closing a closed channel panics
CloseDone(c) ==
    /\ Alive
    /\ closePc[c] = "closing"
    /\ IF done
       THEN panicked' = TRUE /\ UNCHANGED <<done, closePc>>
       ELSE /\ done' = TRUE
            /\ closePc' = [closePc EXCEPT ![c] = "wait"]
            /\ UNCHANGED panicked
    /\ UNCHANGED <<envVars, pathSet, wg, events, wsPc, dirVars, nodeW, addedCnt, removedCnt,
                   dataAfterStop, closeReturned, validPc, validRes, validLate, putAfterClose>>
    /\ UNCHANGED hmVars

\* line 412: w.wg.Wait()
CloseWait(c) ==
    /\ Alive
    /\ closePc[c] = "wait"
    /\ wg = 0
    /\ closePc' = [closePc EXCEPT ![c] = "returned"]
    /\ closeReturned' = TRUE
    /\ UNCHANGED <<envVars, done, panicked, pathSet, wg, events, wsPc, dirVars, nodeW,
                   addedCnt, removedCnt, dataAfterStop, validPc, validRes, validLate,
                   putAfterClose>>
    /\ UNCHANGED hmVars

\* lines 389-391: Valid reads IsClosed
ValidCheck ==
    /\ Alive
    /\ validPc = "idle"
    /\ validLate' = done
    /\ IF IsClosed
       THEN validRes' = "false" /\ validPc' = "idle"
       ELSE validRes' = "none" /\ validPc' = "select"
    /\ UNCHANGED <<envVars, done, panicked, pathSet, wg, events, wsPc, dirVars, nodeW,
                   addedCnt, removedCnt, dataAfterStop, closePc, closeReturned, putAfterClose>>
    /\ UNCHANGED hmVars

\* what lines 393-404 return
ValidSelect == ~regDone /\ zkState \in {"StateConnected", "StateHasSession"}

\* lines 393-404: the registry's done channel, then the session state
ValidReturn ==
    /\ Alive
    /\ validPc = "select"
    /\ validRes' = IF ValidSelect THEN "true" ELSE "false"
    /\ validPc' = "idle"
    /\ UNCHANGED <<envVars, done, panicked, pathSet, wg, events, wsPc, dirVars, nodeW,
                   addedCnt, removedCnt, dataAfterStop, closePc, closeReturned, validLate,
                   putAfterClose>>
    /\ UNCHANGED hmVars

\* ----------------------------------------------------------------- HashMap
\* sync/hash_map.go.  A call that reads and then writes the map (Remove, Pop) is one
\* action per access; the other calls end before the next call of their caller
\* begins and are one action each.
\* lines 41-43: GetShard
GetShard(key) == Hash(key) % shardNum
\* sync.Map.Load on the shard of the key
Load(key) == shard[GetShard(key)][key]
\* sync.Map.Store on the shard of the key
Store(key, value) ==
    /\ shard' = [shard EXCEPT ![GetShard(key)][key] = value]
    /\ storeCnt' = [storeCnt EXCEPT ![key] = @ + 1]
\* sync.Map.Delete on the shard of the key
DeleteKey(key) == shard' = [shard EXCEPT ![GetShard(key)][key] = Absent]
\* the keys the shards hold
StoredKeys == {k \in Keys : \E i \in ShardIds : shard[i][k] # Absent}
\* lines 107-110: Count
Count == size
\* lines 143-146: IsEmpty
IsEmpty == Count = 0
\* the caller t begins a call
Calling(t) ==
    /\ hmPc[t] = IdleCall
    /\ hmLeft > 0
    /\ hmLeft' = hmLeft - 1

\* lines 51-58: Set
Set(t, key, value) ==
    /\ Calling(t)
    /\ Store(key, value)
    /\ size' = size + 1
    /\ UNCHANGED <<hmPc, popTrue, watcherVars>>

\* lines 45-49: MSet, a Set per entry of data
MSet(t, data) ==
    /\ Calling(t)
    /\ shard' = [i \in ShardIds |-> [k \in Keys |->
                    IF k \in DOMAIN data /\ GetShard(k) = i THEN data[k] ELSE shard[i][k]]]
    /\ storeCnt' = [k \in Keys |-> storeCnt[k] + (IF k \in DOMAIN data THEN 1 ELSE 0)]
    /\ size' = size + Cardinality(DOMAIN data)
    /\ UNCHANGED <<hmPc, popTrue, watcherVars>>

\* lines 66-74: Upsert; res is what the callback returns
Upsert(t, key, value, res) ==
    /\ Calling(t)
    /\ Store(key, res)
    /\ UNCHANGED <<size, hmPc, popTrue, watcherVars>>

\* lines 80-85: SetIfAbsent
SetIfAbsent(t, key, value) ==
    /\ Calling(t)
    /\ IF Load(key) = Absent
       THEN Store(key, value)
       ELSE UNCHANGED <<shard, storeCnt>>
    /\ UNCHANGED <<size, hmPc, popTrue, watcherVars>>

\* lines 88-98: SetIfPresent
SetIfPresent(t, key, newValue, oldValue) ==
    /\ Calling(t)
    /\ IF Load(key) # Absent /\ Load(key) = oldValue
       THEN Store(key, newValue)
       ELSE UNCHANGED <<shard, storeCnt>>
    /\ UNCHANGED <<size, hmPc, popTrue, watcherVars>>

\* lines 124-125 and 134-136: the Load of Remove and of Pop; an absent key returns
LoadFor(t, op, key) ==
    /\ Calling(t)
    /\ hmPc' = [hmPc EXCEPT ![t] =
                   IF Load(key) # Absent
                   THEN [op |-> op, key |-> key, v |-> Load(key), at |-> "loaded"]
                   ELSE IdleCall]
    /\ UNCHANGED <<shard, size, popTrue, storeCnt, watcherVars>>

\* lines 126 and 137: shard.Delete(key)
DeleteFor(t, op) ==
    /\ hmPc[t].op = op /\ hmPc[t].at = "loaded"
    /\ DeleteKey(hmPc[t].key)
    /\ hmPc' = [hmPc EXCEPT ![t].at = "deleted"]
    /\ UNCHANGED <<size, hmLeft, popTrue, storeCnt, watcherVars>>

\* lines 127 and 138: atomic.AddInt64(&m.size, -1), and the return
AddFor(t, op) ==
    /\ hmPc[t].op = op /\ hmPc[t].at = "deleted"
    /\ size' = size - 1
    /\ popTrue' = IF op = "Pop" THEN [popTrue EXCEPT ![hmPc[t].key] = @ + 1] ELSE popTrue
    /\ hmPc' = [hmPc EXCEPT ![t] = IdleCall]
    /\ UNCHANGED <<shard, hmLeft, storeCnt, watcherVars>>

\* lines 122-129: Remove
RemoveLoad(t, key) == LoadFor(t, "Remove", key)
RemoveDelete(t) == DeleteFor(t, "Remove")
RemoveAdd(t) == AddFor(t, "Remove")

\* lines 132-141: Pop
PopLoad(t, key) == LoadFor(t, "Pop", key)
PopDelete(t) == DeleteFor(t, "Pop")
PopAdd(t) == AddFor(t, "Pop")

\* ------------------------------------------------------------ specification
Env ==
    \/ \E p \in AllPaths : Create(p)
    \/ \E p \in NodePaths : Delete(p)
    \/ \E p \in InstPaths : SetData(p)
    \/ Disconnect
    \/ SessionExpire
    \/ Reconnect
    \/ SessionEstablished
    \/ RegistryClose

Dir ==
    \/ watchService
    \/ \E p \in DirPaths : watchDirCheck(p)
    \/ \E p \in DirPaths : watchDirAdd(p)
    \/ \E p \in DirPaths : watchDirGetChildrenW(p)
    \/ \E p \in DirPaths : watchDirTimeout(p)
    \/ \E p \in DirPaths : watchDirBackoffDone(p)
    \/ \E p \in DirPaths : watchDirBackoffEvent(p)
    \/ \E p \in DirPaths : watchDirChildEvent(p)
    \/ \E p \in DirPaths : watchDirRegDone(p)

Node ==
    \/ \E n \in NodePaths : nodeAdd(n)
    \/ \E n \in NodePaths : nodeExistW(n)
    \/ \E n \in NodePaths : \E t \in NodeEventTypes : nodeEvent(n, t)
    \/ \E n \in NodePaths : \E ph \in {"armed"} \cup NodeEventTypes : nodeDone(n, ph)
    \/ \E n \in NodePaths : nodeSendDel(n)

\* the whole program with its consumer and one goroutine that calls Close
Next ==
    \/ Env
    \/ Dir
    \/ Node
    \/ Notify
    \/ CloseCheck(1)
    \/ CloseDone(1)
    \/ CloseWait(1)

Init == InitWith(MaxStopSteps)

Spec == Init /\ [][Next]_vars

\* the watch loops and the consumer, without a stop
NextWatch ==
    \/ \E p \in AllPaths : Create(p)
    \/ \E p \in NodePaths : Delete(p)
    \/ \E p \in InstPaths : SetData(p)
    \/ Disconnect
    \/ SessionExpire
    \/ Reconnect
    \/ SessionEstablished
    \/ watchService
    \/ \E p \in DirPaths : watchDirCheck(p)
    \/ \E p \in DirPaths : watchDirAdd(p)
    \/ \E p \in DirPaths : watchDirGetChildrenW(p)
    \/ \E p \in DirPaths : watchDirTimeout(p)
    \/ \E p \in DirPaths : watchDirBackoffEvent(p)
    \/ \E p \in DirPaths : watchDirChildEvent(p)
    \/ \E n \in NodePaths : nodeAdd(n)
    \/ \E n \in NodePaths : nodeExistW(n)
    \/ \E n \in NodePaths : \E t \in NodeEventTypes : nodeEvent(n, t)
    \/ \E n \in NodePaths : nodeSendDel(n)
    \/ Notify

InitWatch == InitWith(MaxEnvSteps)

SpecWatch == InitWatch /\ [][NextWatch]_vars

InitDeep == InitWith(MaxDeepSteps)

SpecDeep == InitDeep /\ [][NextWatch]_vars

\* the facade against a static namespace: one Close caller, the Valid caller
NextValid ==
    \/ Disconnect
    \/ SessionExpire
    \/ Reconnect
    \/ SessionEstablished
    \/ RegistryClose
    \/ watchService
    \/ \E p \in DirPaths : watchDirCheck(p)
    \/ \E p \in DirPaths : watchDirAdd(p)
    \/ \E p \in DirPaths : watchDirGetChildrenW(p)
    \/ \E p \in DirPaths : watchDirTimeout(p)
    \/ \E p \in DirPaths : watchDirBackoffDone(p)
    \/ \E p \in DirPaths : watchDirBackoffEvent(p)
    \/ \E p \in DirPaths : watchDirChildEvent(p)
    \/ \E p \in DirPaths : watchDirRegDone(p)
    \/ \E n \in NodePaths : nodeAdd(n)
    \/ \E n \in NodePaths : nodeExistW(n)
    \/ \E n \in NodePaths : \E ph \in {"armed"} \cup NodeEventTypes : nodeDone(n, ph)
    \/ CloseCheck(1)
    \/ CloseDone(1)
    \/ CloseWait(1)
    \/ ValidCheck
    \/ ValidReturn

InitValid == InitWith(MaxValidSteps)

\* several goroutines call Close, against a static namespace
NextClose ==
    \/ Disconnect
    \/ SessionExpire
    \/ Reconnect
    \/ SessionEstablished
    \/ RegistryClose
    \/ Dir
    \/ \E n \in NodePaths : nodeAdd(n)
    \/ \E n \in NodePaths : nodeExistW(n)
    \/ \E n \in NodePaths : \E ph \in {"armed"} \cup NodeEventTypes : nodeDone(n, ph)
    \/ \E c \in 1..NumClosers : CloseCheck(c)
    \/ \E c \in 1..NumClosers : CloseDone(c)
    \/ \E c \in 1..NumClosers : CloseWait(c)

SpecClose == InitValid /\ [][NextClose]_vars

SpecValid == InitValid /\ [][NextValid]_vars

\* the watch loops and a goroutine that stops the Watcher, without a consumer
NextNode ==
    \/ \E p \in AllPaths : Create(p)
    \/ \E p \in NodePaths : Delete(p)
    \/ \E p \in InstPaths : SetData(p)
    \/ Disconnect
    \/ SessionExpire
    \/ Reconnect
    \/ SessionEstablished
    \/ watchService
    \/ \E p \in DirPaths : watchDirCheck(p)
    \/ \E p \in DirPaths : watchDirAdd(p)
    \/ \E p \in DirPaths : watchDirGetChildrenW(p)
    \/ \E p \in DirPaths : watchDirTimeout(p)
    \/ \E p \in DirPaths : watchDirBackoffDone(p)
    \/ \E p \in DirPaths : watchDirBackoffEvent(p)
    \/ \E p \in DirPaths : watchDirChildEvent(p)
    \/ Node
    \/ CloseCheck(1)
    \/ CloseDone(1)

SpecNode == InitWatch /\ [][NextNode]_vars

\* one caller of the HashMap, every call that writes the map
NextMap ==
    \/ \E k \in Keys : \E v \in Values : Set(1, k, v)
    \/ \E D \in (SUBSET Keys) \ {{}} : \E data \in [D -> Values] : MSet(1, data)
    \/ \E k \in Keys : \E v \in Values : \E res \in Values : Upsert(1, k, v, res)
    \/ \E k \in Keys : \E v \in Values : SetIfAbsent(1, k, v)
    \/ \E k \in Keys : \E v \in Values : \E o \in Values : SetIfPresent(1, k, v, o)
    \/ \E k \in Keys : RemoveLoad(1, k)
    \/ RemoveDelete(1)
    \/ RemoveAdd(1)
    \/ \E k \in Keys : PopLoad(1, k)
    \/ PopDelete(1)
    \/ PopAdd(1)

InitMap == InitWatcher(0) /\ NewHashMap(MaxMapOps)

SpecMap == InitMap /\ [][NextMap]_vars

\* several callers: keys are stored by Set only, Remove and Pop run concurrently
NextMapRace ==
    \/ \E t \in 1..NumPoppers : \E k \in Keys : \E v \in Values : Set(t, k, v)
    \/ \E t \in 1..NumPoppers : \E k \in Keys : RemoveLoad(t, k)
    \/ \E t \in 1..NumPoppers : RemoveDelete(t)
    \/ \E t \in 1..NumPoppers : RemoveAdd(t)
    \/ \E t \in 1..NumPoppers : \E k \in Keys : PopLoad(t, k)
    \/ \E t \in 1..NumPoppers : PopDelete(t)
    \/ \E t \in 1..NumPoppers : PopAdd(t)

SpecMapRace == InitMap /\ [][NextMapRace]_vars

\* ------------------------------------------------------------------ claims
QueuedOf(kind, n) ==
    Cardinality({k \in 1..Len(events) : events[k].kind = kind /\ events[k].node = n})
\* the Added and Removed events of a node the consumer has got or will get
AddedTotal(n) == addedCnt[n] + QueuedOf("ServiceURLAdd", n)
RemovedTotal(n) == removedCnt[n] + QueuedOf("ServiceURLDel", n)

RECURSIVE SumPhases(_, _)
SumPhases(f, S) ==
    IF S = {} THEN 0
    ELSE LET ph == CHOOSE x \in S : TRUE IN f[ph] + SumPhases(f, S \ {ph})
\* the watchServiceNode goroutines of a node that have not ended
NodeWatches(n) == SumPhases(nodeW[n], NodePhases)

\* a step of a goroutine the Watcher started
LoopStep == Dir \/ Node

\* the goroutines wait for a notification and the consumer has drained the relay
Settled ==
    /\ wsPc = "done"
    /\ \A p \in DirPaths : dpc[p] # "backoff"
    /\ ~ENABLED (LoopStep \/ Notify)

\* C1: for every path, at most one watchDir call gets past the pathSet check and
\* enters the watch loop; the other calls for the path return at the check.
C1_OneLoopPerPath == \A p \in DirPaths : loopsEntered[p] <= 1

\* C1 witness: a path has its loop and a second call for it returned at the check.
C1_Witness == \E p \in DirPaths : loopsEntered[p] = 1 /\ dirReturned[p]

\* C2: once a Close call has returned, no watchDir loop and no watchServiceNode
\* loop of the Watcher is running and no event is put on the relay.
C2_CloseJoinsLoops ==
    closeReturned =>
        /\ \A p \in DirPaths : ~Running(p)
        /\ \A n \in NodePaths : ~NodeRunning(n)
        /\ ~putAfterClose

\* C3: once done is closed, the Watcher is not left with a running loop while none of
\* its goroutines has a step to take: without a step of the environment its loops
\* exit, and Close returns.
C3_StopEndsLoops ==
    (done /\ Alive) =>
        \/ /\ \A p \in DirPaths : ~Running(p)
           /\ \A n \in NodePaths : ~NodeRunning(n)
        \/ ENABLED LoopStep

\* C4: in what the consumer gets from Notify, a Removed event of an instance comes
\* after an Added event of it; a node watch is started only for an Added event that
\* is on the relay, and it sends at most one Removed event.
C4_AddedBeforeRemoved ==
    \A n \in NodePaths :
        /\ removedCnt[n] > 0 => addedCnt[n] > 0
        /\ NodeWatches(n) + RemovedTotal(n) <= AddedTotal(n)

\* C4 witness: the consumer got the Added and then the Removed event of an instance.
C4_Witness == \E n \in InstPaths : addedCnt[n] > 0 /\ removedCnt[n] > 0

\* C5: a Notify called with done closed never returns a data event.
C5_StoppedNotifyNoData == ~dataAfterStop

\* C6: a Valid call that begins after done was closed returns false, whatever the
\* session state; a Valid call that found done open returns true exactly when the
\* registry is not done and the session state is Connected or HasSession.
C6_ValidAfterClose ==
    /\ [](validPc = "idle" /\ validLate => validRes = "false")
    /\ [][(validPc = "select" /\ validPc' = "idle") =>
            (validRes' = "true" <=>
                (~regDone /\ zkState \in {"StateConnected", "StateHasSession"}))]_vars

\* C6 witness: Valid returned false after Close although the session is valid and the
\* registry is not done.
C6_Witness ==
    validPc = "idle" /\ validLate /\ validRes = "false" /\ ZkOk /\ ~regDone

\* C7: whatever the number and the interleaving of Close calls, no call closes the
\* done channel a second time.
C7_CloseIdempotent == ~panicked

\* C8: an instance that is there when the Watcher starts, in a namespace that does
\* not change and with a session that is not lost, is reported Added exactly once
\* and never Removed.
C8_InitialInstanceAddedOnce ==
    \A n \in InstPaths :
        (~changed /\ nDisc = 0 /\ n \in nodes /\ PathFilter(n[1]) /\ RecordFilter(n)) =>
            /\ RemovedTotal(n) = 0
            /\ AddedTotal(n) <= 1
            /\ Settled => addedCnt[n] = 1

\* C9: an instance that was reported Added and then deleted once is reported Removed
\* exactly once, also when it was reported Added again before the deletion: the
\* consumer never gets a second Removed event for the one deletion.
C9_RemovedExactlyOnce ==
    \A n \in InstPaths :
        (delCnt[n] = 1 /\ n \notin nodes /\ AddedTotal(n) >= 1) => RemovedTotal(n) <= 1

\* C10: when the session was lost and established again once and the instance was
\* never deleted, the consumer gets at most two Added events and no Removed event of
\* the instance.
C10_AtMostTwoAdded ==
    \A n \in InstPaths :
        (nDisc = 1 /\ ZkOk /\ delCnt[n] = 0) => AddedTotal(n) <= 2 /\ RemovedTotal(n) = 0

C12_NoErrorEvents == \A k \in 1..Len(events) : events[k].err = "nil"

\* C12 witness: a watchDir loop waits after a failed GetChildrenW while an event is
\* on the relay.
C12_Witness == events # <<>> /\ \E p \in DirPaths : dpc[p] = "backoff" /\ failTimes[p] >= 2

\* C13: a Removed event of an instance is queued only by a node watch that received
\* the node-deleted notification of its exists watch; a node watch that ends by the
\* stop signal, a failed ExistW or a lost session queues nothing.
C13_RemovedOnlyOnDelete ==
    /\ [](\A n \in NodePaths :
            RemovedTotal(n) + nodeW[n]["sendDel"] > 0 => delCnt[n] > 0)
    /\ [][\A n \in NodePaths :
            /\ nodeW'[n]["sendDel"] > nodeW[n]["sendDel"]
                  => nodeW'[n]["EventNodeDeleted"] < nodeW[n]["EventNodeDeleted"]
            /\ QueuedOf("ServiceURLDel", n)' > QueuedOf("ServiceURLDel", n)
                  => nodeW'[n]["sendDel"] < nodeW[n]["sendDel"]]_vars

\* C13 witness: the node watch of a reported instance that was never deleted has
\* ended at the stop signal, and no Removed event was queued.
C13_Witness ==
    \E n \in InstPaths :
        /\ done /\ n \in nodes /\ delCnt[n] = 0
        /\ AddedTotal(n) >= 1 /\ NodeWatches(n) = 0 /\ RemovedTotal(n) = 0

\* no call on the HashMap is under way
MapQuiet == \A t \in 1..NumPoppers : hmPc[t] = IdleCall

\* C14: after any sequence of calls of one caller, Count is the number of keys the
\* map holds and IsEmpty is true exactly when it holds none.
C14_CountIsKeys ==
    MapQuiet => /\ Count = Cardinality(StoredKeys)
                /\ IsEmpty <=> StoredKeys = {}

\* C20: whatever the interleaving of concurrent Remove and Pop calls on keys stored
\* by Set, once the calls have returned the size counter is not negative and not
\* below the number of keys stored, and the Pop calls that returned exists = true for
\* a key are not more than the values that were stored under it.
C20_RemovePopOnce ==
    MapQuiet => /\ Count >= 0
                /\ Count >= Cardinality(StoredKeys)
                /\ \A k \in Keys : popTrue[k] <= storeCnt[k]

\* C15: while no client call has failed (no session loss, the service path never
\* deleted), a children-changed notification reports only children that the
\* preceding children watch call did not return: an instance is reported Added at
\* most once per time it was created.
C15_NoReAddWithoutFailure ==
    \A n \in InstPaths :
        (nDisc = 0 /\ delCnt[Parent(n)] = 0)
            => AddedTotal(n) <= delCnt[n] + (IF n \in nodes THEN 1 ELSE 0)

\* C16: a node watch that takes a watch-invalidated (EventNotWatching) notification
\* returns false: it does not go on to call ExistW again and it leads to no Removed
\* event.
C16_NotWatchingGivesUp ==
    [][\A n \in NodePaths :
        nodeW'[n]["EventNotWatching"] < nodeW[n]["EventNotWatching"]
        => /\ nodeW'[n]["call"] = nodeW[n]["call"]
           /\ nodeW'[n]["sendDel"] = nodeW[n]["sendDel"]
           /\ QueuedOf("ServiceURLDel", n)' = QueuedOf("ServiceURLDel", n)]_vars

\* C17: when the root loop is woken by the registry's signal after a failed watch
\* call and the client calls succeed, it starts a watchDir loop for every child of
\* the root that passes the filter and is not watched yet, and it queues no Added
\* event and starts no node watch for a child of the root.
C17_RootChildIsServicePath ==
    [][(/\ dpc[Root] = "backoff" /\ dpc'[Root] = "call" /\ evCh'[Root] = evCh[Root] - 1
        /\ GetChildrenOk(Root))
       => \A sp \in SvcPaths :
            /\ (sp \in nodes /\ PathFilter(sp[1]) /\ ~Watched(sp) /\ dirSpawned[sp] = 0)
                  => dirSpawned'[sp] = 1
            /\ QueuedOf("ServiceURLAdd", sp)' = QueuedOf("ServiceURLAdd", sp)
            /\ nodeW'[sp]["spawned"] = nodeW[sp]["spawned"]]_vars

\* C18: once done is closed no watchDir call registers a path in pathSet or enters
\* its loop, and once a Close call has returned the wait group counter is not
\* incremented.
C18_NoStartAfterStop ==
    [][/\ done => /\ pathSet' = pathSet
                  /\ loopsEntered' = loopsEntered
       /\ closeReturned => wg' <= wg]_vars

\* C19: a watchDir loop that leaves its backoff wait by the registry's signal has its
\* failTimes at zero when it retries the watch call; a failed watch call raises
\* failTimes by one, up to MAX_TIMES.
C19_ReconnectResetsFailTimes ==
    [][\A p \in DirPaths :
        /\ (dpc[p] = "backoff" /\ dpc'[p] = "call" /\ evCh'[p] = evCh[p] - 1)
              => failTimes'[p] = 0
        /\ (dpc[p] = "call" /\ dpc'[p] = "backoff")
              => failTimes'[p] = Min(failTimes[p] + 1, MAX_TIMES)]_vars

====
